---- MODULE Spec2Model ----
(***************************************************************************)
(* A model of the notebook 27_bidirectional_LSTM.ipynb: the IMDB data is   *)
(* loaded with a 10,000-word vocabulary, padded to 200 tokens, a           *)
(* bidirectional LSTM is built, trained for 5 epochs, evaluated on the     *)
(* test set and used by predict_sentiment on free text.                    *)
(*                                                                         *)
(* The framework calls (imdb.load_data, pad_sequences, model.fit,          *)
(* model.evaluate, model.predict) are modelled by what Keras does with the *)
(* arguments the notebook passes; the network's arithmetic is opaque and   *)
(* is represented by a deterministic function of an integer digest of the  *)
(* parameters and of the input row.                                        *)
(***************************************************************************)
EXTENDS Integers, Sequences, FiniteSets, TLC

VARIABLES
    pc,               \* the notebook cell (or the step of it) to run next
    log,              \* the stages completed so far, in order
    loaded,           \* what imdb.load_data returned, before padding
    x_train, y_train, \* training reviews and labels
    x_test, y_test,   \* test reviews and labels
    params,           \* digest of the model's parameters; -1 before the build
    fit_x,            \* which arrays model.fit was given
    n_fit,            \* number of rows model.fit was given
    epoch,            \* epochs completed by model.fit
    step,             \* weight updates done in the current epoch
    shuffle,          \* the current epoch's shuffle of the training part
    used,             \* rows used for a weight update in the current epoch
    used_n,           \* number of row uses in the current epoch
    updates,          \* weight updates done by model.fit in total
    val_seen,         \* rows the validation passes have read
    trained_params,   \* the parameters when model.fit returned
    eval_x,           \* which arrays model.evaluate was given
    acc,              \* correct test predictions counted by model.evaluate
    ncalls,           \* predict_sentiment calls made
    text,             \* the argument of the last predict_sentiment call
    sequence,         \* its local sequence
    padded_sequence,  \* its local padded_sequence
    probability,      \* its local probability, in units of 1 / (2 * HalfScale)
    output,           \* the lines it printed
    memo              \* text -> result, of the calls before the last

vars == <<pc, log, loaded, x_train, y_train, x_test, y_test, params, fit_x,
          n_fit, epoch, step, shuffle, used, used_n, updates, val_seen,
          trained_params, eval_x, acc, ncalls, text, sequence,
          padded_sequence, probability, output, memo>>

dataVars == <<loaded, x_train, y_train, x_test, y_test>>
fitVars == <<fit_x, n_fit, epoch, step, shuffle, used, used_n, updates,
             val_seen, trained_params>>
callVars == <<ncalls, text, sequence, padded_sequence, probability, output,
              memo>>

----------------------------------------------------------------------------
(* Program constants *)

max_features == 10000
maxlen == 200
index_from == 3
start_char == 1
oov_char == 2
batch_size == 32
epochs == 5
\* validation_split = 0.2, as a percentage
validation_split == 20
\* rows of x_train in the notebook's run: "25000 train sequences"
num_train == 25000
\* the notebook calls predict_sentiment twice
NumCalls == 2

(* Bounds of the model *)

\* texts of up to MaxTextLen characters are enumerated in full
MaxTextLen == 3
\* rows of the modelled training and test sets
NumTrain == 2
NumTest == 1
\* probabilities are multiples of 1 / (2 * HalfScale); 0.5 is HalfScale
HalfScale == 3
\* parameter digests are taken modulo ParamMod
ParamMod == 5
\* the largest rank of imdb.get_word_index(), which has 88,584 entries
MaxRank == 88584

----------------------------------------------------------------------------
(* Sequences *)

Zeros(n) == [j \in 1..n |-> 0]

\* the sum of s[lo..hi], by halves
RECURSIVE SumRange(_, _, _)
SumRange(s, lo, hi) ==
    IF lo > hi THEN 0
    ELSE IF lo = hi THEN s[lo]
    ELSE LET mid == (lo + hi) \div 2
         IN SumRange(s, lo, mid) + SumRange(s, mid + 1, hi)

SumSeq(s) == SumRange(s, 1, Len(s))

Min(a, b) == IF a < b THEN a ELSE b

----------------------------------------------------------------------------
(* Sets of row numbers, kept as sets of intervals <<lo, hi>> that neither *)
(* overlap nor touch.                                                      *)

\* the set of the rows of the intervals of I, which may overlap or touch
Merge(I) ==
    LET IsStart(a) == ~ \E iv \in I : iv[1] < a /\ a <= iv[2] + 1
        IsEnd(b) == ~ \E iv \in I : iv[1] - 1 <= b /\ b < iv[2]
        S == { iv[1] : iv \in { x \in I : IsStart(x[1]) } }
        E == { iv[2] : iv \in { x \in I : IsEnd(x[2]) } }
    IN { <<a, CHOOSE b \in E : b >= a /\ \A c \in E : c >= a => b <= c>> :
           a \in S }

\* the number of rows of I, each interval counted in full
RECURSIVE Size(_)
Size(I) ==
    IF I = {} THEN 0
    ELSE LET iv == CHOOSE x \in I : TRUE
         IN (iv[2] - iv[1] + 1) + Size(I \ {iv})

\* the rows lo .. hi, none if lo > hi
Rows(lo, hi) == IF lo <= hi THEN {<<lo, hi>>} ELSE {}

----------------------------------------------------------------------------
(* Text: a string is a sequence of one-character strings.  The alphabet   *)
(* has two lower-case letters, the upper-case form of one of them, a      *)
(* whitespace character and four upper-case letters that spell the        *)
(* reserved keys: P for "<PAD>", S for "<START>", U for "<UNK>", N for    *)
(* "<UNUSED>" (keys that hold upper-case letters, as in the notebook).    *)

Whitespace == {" "}
Alphabet == {"a", "b", "A", " ", "P", "S", "U", "N"}

\* str.lower() on one character
LowerChar(c) ==
    CASE c = "A" -> "a"
      [] c = "B" -> "b"
      [] c = "P" -> "p"
      [] c = "S" -> "s"
      [] c = "U" -> "u"
      [] c = "N" -> "n"
      [] OTHER -> c

\* str.lower()
Lower(s) == [i \in 1..Len(s) |-> LowerChar(s[i])]

\* two lists of pieces of adjacent ranges, the last piece of the first
\* running on into the first piece of the second
Join(L, R) ==
    SubSeq(L, 1, Len(L) - 1) \o <<L[Len(L)] \o R[1]>> \o Tail(R)

\* the maximal runs of non-whitespace characters of s[lo..hi], in order
RECURSIVE SplitRange(_, _, _)
SplitRange(s, lo, hi) ==
    IF lo > hi THEN <<>>
    ELSE IF lo = hi THEN (IF s[lo] \in Whitespace THEN <<>> ELSE <<(<<s[lo]>>)>>)
    ELSE LET mid == (lo + hi) \div 2
             L == SplitRange(s, lo, mid)
             R == SplitRange(s, mid + 1, hi)
         IN IF s[mid] \notin Whitespace /\ s[mid + 1] \notin Whitespace
            THEN Join(L, R)
            ELSE L \o R

\* str.split(): runs of whitespace separate, none leads or trails
Split(s) == SplitRange(s, 1, Len(s))

----------------------------------------------------------------------------
(* The word index.  imdb.get_word_index() maps lower-case words to their   *)
(* frequency ranks, 1 for the most frequent.  The model keeps the words    *)
(* of rank 1 and 2, the last two ranks whose index, rank + index_from, is  *)
(* inside the 10,000-word vocabulary (9995, 9996), the first rank outside  *)
(* it (9997) and the last rank of all.                                     *)

\* the last rank whose index is below max_features
LastRankInside == max_features - index_from - 1

get_word_index ==
    (<<"a">> :> 1) @@ (<<"b">> :> 2) @@
    (<<"a", "a">> :> LastRankInside - 1) @@ (<<"b", "b">> :> LastRankInside) @@
    (<<"a", "b">> :> LastRankInside + 1) @@ (<<"b", "a">> :> MaxRank)

ReservedKeys ==
    (<<"P">> :> 0) @@ (<<"S">> :> 1) @@ (<<"U">> :> 2) @@ (<<"N">> :> 3)

\* word_index = {k: v + 3}, then the four reserved keys are stored
ShiftedIndex == [k \in DOMAIN get_word_index |-> get_word_index[k] + 3]

word_index == ReservedKeys @@ ShiftedIndex

\* dict.get(word, default)
DictGet(d, word, default) == IF word \in DOMAIN d THEN d[word] ELSE default

----------------------------------------------------------------------------
(* imdb.load_data(num_words = max_features).  The stored reviews are      *)
(* sequences of frequency ranks; load_data puts start_char first, adds    *)
(* index_from to every rank and replaces every index that is not below    *)
(* num_words by oov_char.                                                 *)

Shifted(raw) ==
    <<start_char>> \o [i \in 1..Len(raw) |-> raw[i] + index_from]

CapToVocabulary(s, num_words) ==
    [i \in 1..Len(s) |-> IF s[i] < num_words THEN s[i] ELSE oov_char]

LoadEncode(raw, num_words) == CapToVocabulary(Shifted(raw), num_words)

----------------------------------------------------------------------------
(* pad_sequences(sequences, maxlen = maxlen), with the defaults           *)
(* padding = 'pre', truncating = 'pre', value = 0.                        *)

\* truncating = 'pre': s[-maxlen:]
Truncate(s) ==
    IF Len(s) > maxlen THEN SubSeq(s, Len(s) - maxlen + 1, Len(s)) ELSE s

\* pads a short row and leaves a long one as it is
PadRowNoTruncate(s) ==
    IF Len(s) >= maxlen THEN s ELSE Zeros(maxlen - Len(s)) \o s

\* padding = 'pre': x[idx, -len(trunc):] = trunc over a row of zeros
PadRow(s) ==
    LET trunc == Truncate(s)
        lead == maxlen - Len(trunc)
    IN [j \in 1..maxlen |-> IF j > lead THEN trunc[j - lead] ELSE 0]

\* padding = 'post': the zeros follow the tokens
pad_sequences_post(seqs) ==
    [i \in 1..Len(seqs) |->
        [j \in 1..maxlen |->
            IF j <= Len(Truncate(seqs[i])) THEN Truncate(seqs[i])[j] ELSE 0]]

\* the rows padded, but handed back in reverse order
pad_sequences_reversed(seqs) ==
    [i \in 1..Len(seqs) |-> PadRow(seqs[Len(seqs) + 1 - i])]

pad_sequences(seqs) == [i \in 1..Len(seqs) |-> PadRow(seqs[i])]

----------------------------------------------------------------------------
(* The network.  model.predict is a deterministic function of the         *)
(* parameters and of the input row; its value, a sigmoid output, is a     *)
(* number between 0 and 1, here a multiple of 1 / (2 * HalfScale).        *)

Forward(p, row) == (p + SumSeq(row)) % (2 * HalfScale + 1)

\* probability >= 0.5
IsAtLeastHalf(prob) == 2 * prob >= 2 * HalfScale

\* probability > 0.5
IsPositive(prob) == 2 * prob > 2 * HalfScale

\* one optimizer step on a batch
Update(p, batch) == (p + Size(batch)) % ParamMod

----------------------------------------------------------------------------
(* predict_sentiment(text) *)

\* words = text.split()
TokenizeNoLower(t) == Split(t)

\* words = text.lower().split()
Tokenize(t) == Split(Lower(t))

\* sequence = [word_index.get(word, 2) for word in words]
Lookup(words) == [i \in 1..Len(words) |-> DictGet(word_index, words[i], 2)]

\* the branch on the probability and the line it prints
ResultLine(prob) ==
    [kind |-> "Result",
     sentiment |-> IF IsPositive(prob) THEN "Positive sentiment"
                                       ELSE "Negative sentiment"]

\* the lines of one call: model.predict's progress line, then the prints
Printed(t, prob) ==
    << [kind |-> "1/1"],
       [kind |-> "Review", review |-> t],
       [kind |-> "Positive Sentiment Probability", probability |-> prob],
       ResultLine(prob) >>

PredictSentiment(t) ==
    LET words == Tokenize(t)
        seq == Lookup(words)
        padded == pad_sequences(<<seq>>)
        prob == Forward(params, padded[1])
    IN /\ pc = "predict"
       /\ ncalls < NumCalls
       /\ text' = t
       /\ sequence' = seq
       /\ padded_sequence' = padded
       /\ probability' = prob
       /\ output' = Printed(t, prob)
       /\ memo' = IF ncalls = 0 THEN memo ELSE memo @@ (text :> [probability |-> probability, output |-> output])
       /\ ncalls' = ncalls + 1
       /\ pc' = IF ncalls + 1 = NumCalls THEN "done" ELSE "predict"
       /\ log' = Append(log, "predict")
       /\ UNCHANGED <<dataVars, params, fitVars, eval_x, acc>>

----------------------------------------------------------------------------
(* Inputs *)

\* ranks a stored review is made of: the two most frequent words, the last
\* rank inside the vocabulary, the first outside it and the last of all
Ranks == <<1, LastRankInside, LastRankInside + 1, MaxRank, 2>>

\* a stored review of n words
RawReview(n, k) == [i \in 1..n |-> Ranks[((i + k) % Len(Ranks)) + 1]]

\* the stored samples, a review and its label each.  With the start marker
\* the reviews have 3, maxlen - 1, maxlen and maxlen + 2 entries.
Stored ==
    << [x |-> RawReview(2, 1), y |-> 0],
       [x |-> RawReview(maxlen - 2, 0), y |-> 1],
       [x |-> RawReview(maxlen - 1, 2), y |-> 0],
       [x |-> RawReview(maxlen + 1, 1), y |-> 1] >>

\* a data set of n samples: n consecutive stored samples from offset o on
DataSet(o, n) == [i \in 1..n |-> Stored[((o + i - 1) % Len(Stored)) + 1]]

Offsets == 0..(Len(Stored) - 1)

\* a text of n two-letter words, "aa" and "ab" in turn, one blank between
LongText(n) ==
    [j \in 1..(3 * n - 1) |->
        CASE (j - 1) % 3 = 0 -> "a"
          [] (j - 1) % 3 = 1 -> IF ((j - 1) \div 3) % 2 = 0 THEN "a" ELSE "b"
          [] OTHER -> " "]

ShortTexts == UNION { [1..n -> Alphabet] : n \in 0..MaxTextLen }

LongTexts == { LongText(n) : n \in {maxlen - 1, maxlen, maxlen + 1} }

Texts == ShortTexts \cup LongTexts

\* the texts the pipeline's calls are made with
PipelineTexts ==
    { <<>>, <<"A", " ", "b", "b">>, <<"a", "b">>, LongText(maxlen + 1) }

----------------------------------------------------------------------------
(* The notebook, cell by cell *)

Init ==
    /\ pc = "load"
    /\ log = <<>>
    /\ loaded = <<>>
    /\ x_train = <<>> /\ y_train = <<>>
    /\ x_test = <<>> /\ y_test = <<>>
    /\ params = -1
    /\ fit_x = "none" /\ n_fit = 0 /\ epoch = 0 /\ step = 0
    /\ shuffle = 0 /\ used = {} /\ used_n = 0 /\ updates = 0
    /\ val_seen = {} /\ trained_params = -1
    /\ eval_x = "none" /\ acc = 0
    /\ ncalls = 0 /\ text = <<>> /\ sequence = <<>>
    /\ padded_sequence = <<>> /\ probability = 0 /\ output = <<>>
    /\ memo = <<>>

\* (x_train, y_train), (x_test, y_test) = imdb.load_data(num_words=max_features)
Load ==
    /\ pc = "load"
    /\ \E o1 \in Offsets, o2 \in Offsets :
        LET train == DataSet(o1, NumTrain)
            test == DataSet(o2, NumTest)
        IN
          /\ x_train' = [i \in 1..NumTrain |-> LoadEncode(train[i].x, max_features)]
          /\ y_train' = [i \in 1..NumTrain |-> train[i].y]
          /\ x_test' = [i \in 1..NumTest |-> LoadEncode(test[i].x, max_features)]
          /\ y_test' = [i \in 1..NumTest |-> test[i].y]
    /\ loaded' = [x_train |-> x_train', y_train |-> y_train',
                  x_test |-> x_test', y_test |-> y_test']
    /\ pc' = "pad"
    /\ UNCHANGED <<log, params, fitVars, eval_x, acc, callVars>>

\* x_train = pad_sequences(x_train, maxlen=maxlen); the same for x_test
Pad ==
    /\ pc = "pad"
    /\ x_train' = pad_sequences(x_train)
    /\ x_test' = pad_sequences(x_test)
    /\ log' = Append(log, "load and pad")
    /\ pc' = "build"
    /\ UNCHANGED <<loaded, y_train, y_test, params, fitVars, eval_x, acc,
                   callVars>>

\* model = Sequential(); three layers; model.compile(...)
Build ==
    /\ pc = "build"
    /\ params' \in 0..(ParamMod - 1)
    /\ log' = Append(log, "build")
    /\ pc' = "fit"
    /\ UNCHANGED <<dataVars, fitVars, eval_x, acc, callVars>>

----------------------------------------------------------------------------
(* model.fit(x_train, y_train, batch_size=32, epochs=5,                   *)
(*           validation_split=0.2)                                        *)

\* no rows held back
SplitAtNone(n) == n

\* the first split_at rows are trained on, the rest are held back
SplitAt(n) == (n * (100 - validation_split)) \div 100

ValRows(n) == Rows(SplitAt(n), n - 1)

StepsPerEpoch(n) == (SplitAt(n) + batch_size - 1) \div batch_size

\* an epoch's shuffle of the training part: a rotation by sh, here by no
\* row or by 13 rows
Shuffles(n) == {0, 13 % SplitAt(n)}

\* the rows of the k-th batch (k = 0, 1, ...) of an epoch shuffled by sh
BatchRows(k, sh, n) ==
    LET m == SplitAt(n)
        first == (k * batch_size + sh) % m
        last == (Min((k + 1) * batch_size, m) - 1 + sh) % m
    IN IF first <= last THEN Rows(first, last)
                         ELSE Rows(first, m - 1) \cup Rows(0, last)

Fit ==
    /\ pc = "fit"
    /\ fit_x' = "x_train, y_train"
    /\ n_fit' = Len(x_train)
    /\ epoch' = 0
    /\ updates' = 0
    /\ pc' = "epoch_begin"
    /\ UNCHANGED <<log, dataVars, params, step, shuffle, used, used_n,
                   val_seen, trained_params, eval_x, acc, callVars>>

EpochBegin ==
    /\ pc = "epoch_begin"
    /\ epoch < epochs
    /\ shuffle' \in Shuffles(n_fit)
    /\ step' = 0
    /\ used' = {}
    /\ used_n' = 0
    /\ pc' = "fit_step"
    /\ UNCHANGED <<log, dataVars, params, fit_x, n_fit, epoch, updates,
                   val_seen, trained_params, eval_x, acc, callVars>>

FitStep ==
    /\ pc = "fit_step"
    /\ step < StepsPerEpoch(n_fit)
    /\ LET batch == BatchRows(step, shuffle, n_fit)
       IN /\ params' = Update(params, batch)
          /\ used' = Merge(used \cup batch)
          /\ used_n' = used_n + Size(batch)
    /\ step' = step + 1
    /\ updates' = updates + 1
    /\ UNCHANGED <<pc, log, dataVars, fit_x, n_fit, epoch, shuffle, val_seen,
                   trained_params, eval_x, acc, callVars>>

\* the epoch's validation pass over the held-back rows
EpochEnd ==
    /\ pc = "fit_step"
    /\ step = StepsPerEpoch(n_fit)
    /\ val_seen' = Merge(val_seen \cup ValRows(n_fit))
    /\ epoch' = epoch + 1
    /\ pc' = "epoch_begin"
    /\ UNCHANGED <<log, dataVars, params, fit_x, n_fit, step, shuffle, used,
                   used_n, updates, trained_params, eval_x, acc, callVars>>

FitReturn ==
    /\ pc = "epoch_begin"
    /\ epoch = epochs
    /\ trained_params' = params
    /\ log' = Append(log, "train")
    /\ pc' = "evaluate"
    /\ UNCHANGED <<dataVars, params, fit_x, n_fit, epoch, step, shuffle, used,
                   used_n, updates, val_seen, eval_x, acc, callVars>>

----------------------------------------------------------------------------
(* score, acc = model.evaluate(x_test, y_test, batch_size=32) *)

Correct(p, xs, ys) ==
    { i \in 1..Len(xs) : (IF IsPositive(Forward(p, xs[i])) THEN 1 ELSE 0) = ys[i] }

\* the test pass, run by the cell before the training cell
EvaluateBeforeFit ==
    /\ pc = "fit"
    /\ eval_x = "none"
    /\ eval_x' = "x_test, y_test"
    /\ acc' = Cardinality(Correct(params, x_test, y_test))
    /\ log' = Append(log, "evaluate")
    /\ UNCHANGED <<pc, dataVars, params, fitVars, callVars>>

\* the test pass, taking an optimizer step on the test rows
EvaluateTraining ==
    /\ pc = "evaluate"
    /\ eval_x' = "x_test, y_test"
    /\ acc' = Cardinality(Correct(params, x_test, y_test))
    /\ params' = Update(params, Rows(0, Len(x_test) - 1))
    /\ log' = Append(log, "evaluate")
    /\ pc' = "predict"
    /\ UNCHANGED <<dataVars, fitVars, callVars>>

Evaluate ==
    /\ pc = "evaluate"
    /\ eval_x' = "x_test, y_test"
    /\ acc' = Cardinality(Correct(params, x_test, y_test))
    /\ log' = Append(log, "evaluate")
    /\ pc' = "predict"
    /\ UNCHANGED <<dataVars, params, fitVars, callVars>>

\* predict_sentiment("..."), twice
Predict == \E t \in PipelineTexts : PredictSentiment(t)

Next ==
    \/ Load
    \/ Pad
    \/ Build
    \/ Fit
    \/ EpochBegin
    \/ FitStep
    \/ EpochEnd
    \/ FitReturn
    \/ Evaluate
    \/ Predict

Spec == Init /\ [][Next]_vars

----------------------------------------------------------------------------
(* model.fit on the notebook's 25,000 training rows: the state when the   *)
(* call begins, the rows known by their number only.                      *)

InitFit ==
    /\ pc = "epoch_begin"
    /\ log = <<"load and pad", "build">>
    /\ loaded = <<>>
    /\ x_train = <<>> /\ y_train = <<>>
    /\ x_test = <<>> /\ y_test = <<>>
    /\ params \in 0..(ParamMod - 1)
    /\ fit_x = "x_train, y_train" /\ n_fit = num_train
    /\ epoch = 0 /\ step = 0
    /\ shuffle = 0 /\ used = {} /\ used_n = 0 /\ updates = 0
    /\ val_seen = {} /\ trained_params = -1
    /\ eval_x = "none" /\ acc = 0
    /\ ncalls = 0 /\ text = <<>> /\ sequence = <<>>
    /\ padded_sequence = <<>> /\ probability = 0 /\ output = <<>>
    /\ memo = <<>>

NextFit ==
    \/ EpochBegin
    \/ FitStep
    \/ EpochEnd
    \/ FitReturn

\* model.fit is one synchronous call: a step that can be taken is taken
SpecFit == InitFit /\ [][NextFit]_vars /\ WF_vars(NextFit)

----------------------------------------------------------------------------
(* predict_sentiment as a function of its text and of the trained model:  *)
(* one call, with any text, on any parameters.                            *)

InitPredict ==
    /\ pc = "predict"
    /\ log = <<"load and pad", "build", "train", "evaluate">>
    /\ loaded = <<>>
    /\ x_train = <<>> /\ y_train = <<>>
    /\ x_test = <<>> /\ y_test = <<>>
    /\ params \in 0..(ParamMod - 1)
    /\ fit_x = "x_train, y_train" /\ n_fit = 0
    /\ epoch = epochs /\ step = 0
    /\ shuffle = 0 /\ used = {} /\ used_n = 0 /\ updates = 0
    /\ val_seen = {} /\ trained_params = params
    /\ eval_x = "x_test, y_test" /\ acc = 0
    /\ ncalls = NumCalls - 1 /\ text = <<>> /\ sequence = <<>>
    /\ padded_sequence = <<>> /\ probability = 0 /\ output = <<>>
    /\ memo = <<>>

PredictAny == \E t \in Texts : PredictSentiment(t)

NextPredict == PredictAny

SpecPredict == InitPredict /\ [][NextPredict]_vars

----------------------------------------------------------------------------
(* Properties *)

\* the last n entries of q
LastN(q, n) == SubSeq(q, Len(q) - n + 1, Len(q))

\* a row as left-padding to maxlen defines it
LeftPadded(s) == LastN(Zeros(maxlen) \o s, maxlen)

Padded == pc \notin {"load", "pad"} /\ loaded # <<>>

Called == ncalls > 0 /\ padded_sequence # <<>>

\* C1: every index sequence that reaches the model has exactly maxlen
\* entries: after padding every row of x_train and of x_test, whatever the
\* review's length, and the single row predict_sentiment passes on, for
\* the empty text and for a text of more than maxlen words too.
C1_RowsHaveMaxlen ==
    /\ Padded =>
          /\ \A i \in 1..Len(x_train) : Len(x_train[i]) = maxlen
          /\ \A i \in 1..Len(x_test) : Len(x_test[i]) = maxlen
    /\ Called =>
          /\ Len(padded_sequence) = 1
          /\ Len(padded_sequence[1]) = maxlen

C1_Witness ==
    /\ Padded
    /\ \E i \in 1..Len(x_train) : Len(loaded.x_train[i]) > maxlen
    /\ \E i \in 1..Len(x_train) : Len(loaded.x_train[i]) < maxlen
    /\ \E i \in 1..Len(x_test) : Len(loaded.x_test[i]) = maxlen
    /\ ncalls = NumCalls
    /\ Len(sequence) > maxlen
    /\ <<>> \in DOMAIN memo

InVocabulary(row) == \A j \in 1..Len(row) : row[j] \in 0..(max_features - 1)

\* C2: every word index given to the model is in 0 .. max_features - 1, the
\* range the Embedding(max_features, 128) table covers: in the padded
\* training set, in the padded test set and in the row predict_sentiment
\* builds from any text.
C2_IndicesInVocabulary ==
    /\ Padded =>
          /\ \A i \in 1..Len(x_train) : InVocabulary(x_train[i])
          /\ \A i \in 1..Len(x_test) : InVocabulary(x_test[i])
    /\ Called => InVocabulary(padded_sequence[1])

\* the words of a tokenized text as load_data encodes a review of them
DatasetEncoding(words) ==
    <<start_char>> \o
    [i \in 1..Len(words) |->
        IF /\ words[i] \in DOMAIN get_word_index
           /\ get_word_index[words[i]] + index_from < max_features
        THEN get_word_index[words[i]] + index_from
        ELSE oov_char]

\* C3: predict_sentiment preprocesses a text as the training data was: the
\* sequence it pads is the start marker 1, then each word as its rank + 3,
\* every index of max_features or more replaced by the unknown marker 2.
C3_SameAsTrainingEncoding ==
    Called => sequence = DatasetEncoding(Split(Lower(text)))

\* C6: padding keeps every review paired with its label: it changes neither
\* the number nor the order of the reviews and leaves y_train and y_test
\* alone, so x and y have as many rows, row i comes from review i, and
\* every label is 0 or 1.
C6_ReviewsStayPaired ==
    Padded =>
        /\ Len(x_train) = Len(loaded.x_train)
        /\ Len(x_test) = Len(loaded.x_test)
        /\ y_train = loaded.y_train
        /\ y_test = loaded.y_test
        /\ Len(x_train) = Len(y_train)
        /\ Len(x_test) = Len(y_test)
        /\ \A i \in 1..Len(x_train) :
              /\ x_train[i] = LeftPadded(loaded.x_train[i])
              /\ y_train[i] \in {0, 1}
        /\ \A i \in 1..Len(x_test) :
              /\ x_test[i] = LeftPadded(loaded.x_test[i])
              /\ y_test[i] \in {0, 1}

C6_Witness ==
    /\ Padded
    /\ Len(x_train) > 1
    /\ x_train[1] # x_train[2]
    /\ y_train[1] # y_train[2]

\* C7: padding is on the left with index 0 and keeps the review's own
\* tokens in order at the end of the row: the padded row is the last maxlen
\* entries of maxlen zeros followed by the review, so a shorter review
\* follows the zeros unchanged, one of maxlen entries is unchanged and a
\* longer one keeps its last maxlen tokens.
C7_LeftPaddedRows ==
    /\ Padded =>
          /\ \A i \in 1..Len(x_train) :
                LET s == loaded.x_train[i]
                    row == x_train[i]
                IN /\ Len(s) < maxlen =>
                        /\ SubSeq(row, maxlen - Len(s) + 1, maxlen) = s
                        /\ \A j \in 1..(maxlen - Len(s)) : row[j] = 0
                   /\ Len(s) = maxlen => row = s
                   /\ Len(s) > maxlen =>
                        row = SubSeq(s, Len(s) - maxlen + 1, Len(s))
          /\ \A i \in 1..Len(x_test) : x_test[i] = LeftPadded(loaded.x_test[i])
    /\ Called => padded_sequence[1] = LeftPadded(sequence)

C7_Witness ==
    /\ Padded
    /\ \E i \in 1..Len(x_train) :
          /\ Len(loaded.x_train[i]) > maxlen
          /\ x_train[i][1] # loaded.x_train[i][1]
    /\ \E i \in 1..Len(x_train) :
          /\ Len(loaded.x_train[i]) < maxlen
          /\ x_train[i][1] = 0
          /\ x_train[i][maxlen] # 0
    /\ ncalls = NumCalls
    /\ Len(sequence) \in 1..(maxlen - 1)
    /\ \E t \in DOMAIN memo : Len(t) > 3 * maxlen

\* C4: the parameters are created by the build, changed only by the steps
\* of model.fit and left alone by model.evaluate and predict_sentiment:
\* from the return of model.fit on they keep their post-training value,
\* and a call with the text of an earlier call gives the same probability
\* and prints the same lines.
C4_ParametersFrame ==
    [][ /\ params' # params => pc \in {"build", "fit_step"}
        /\ pc' \in {"load", "pad", "build"} => params' = -1
        /\ pc' \in {"evaluate", "predict", "done"} =>
              /\ params' # -1
              /\ params' = trained_params'
        /\ (ncalls' > 1 /\ text' \in DOMAIN memo') =>
              /\ memo'[text'].probability = probability'
              /\ memo'[text'].output = output' ]_vars

C4_Witness ==
    /\ pc = "done"
    /\ ncalls = NumCalls
    /\ text \in DOMAIN memo
    /\ Len(text) > 0
    /\ updates > 0
    /\ eval_x # "none"

Stages ==
    <<"load and pad", "build", "train", "evaluate">> \o
    [i \in 1..NumCalls |-> "predict"]

\* C5: the stages run once each, in the order load and pad, build, train,
\* evaluate, predict: no training before the build and the padding, no
\* evaluation before training has finished, each predict_sentiment call
\* after training and evaluation; the test set goes to evaluate only.
C5_LinearPipeline ==
    /\ Len(log) <= Len(Stages)
    /\ log = SubSeq(Stages, 1, Len(log))
    /\ pc = "done" => log = Stages
    /\ (fit_x # "none" \/ updates > 0) => (params # -1 /\ Padded)
    /\ eval_x # "none" => (epoch = epochs /\ trained_params = params)
    /\ ncalls > 0 => (epoch = epochs /\ eval_x # "none")
    /\ fit_x \in {"none", "x_train, y_train"}
    /\ fit_x # "none" => n_fit = Len(loaded.y_train)
    /\ eval_x \in {"none", "x_test, y_test"}

C5_Witness ==
    /\ pc = "done"
    /\ ncalls = NumCalls
    /\ updates > 0
    /\ eval_x = "x_test, y_test"

----------------------------------------------------------------------------
(* Properties of predict_sentiment as a function *)

\* where the maximal runs of non-whitespace characters of s begin
RunStarts(s) ==
    { i \in 1..Len(s) : s[i] \notin Whitespace /\ (i = 1 \/ s[i - 1] \in Whitespace) }

\* where the run that begins at i ends
RunEnd(s, i) ==
    CHOOSE j \in i..Len(s) :
        /\ \A k \in i..j : s[k] \notin Whitespace
        /\ (j = Len(s) \/ s[j + 1] \in Whitespace)

SwapCase(c) ==
    CASE c = "a" -> "A" [] c = "A" -> "a"
      [] c = "b" -> "B" [] c = "B" -> "b"
      [] c = "P" -> "p" [] c = "S" -> "s"
      [] c = "U" -> "u" [] c = "N" -> "n"
      [] OTHER -> c

\* t with the case of one letter changed
CaseVariants(t) == { [t EXCEPT ![i] = SwapCase(t[i])] : i \in 1..Len(t) }

\* t with one more blank where whitespace already is, or at either end
BlankVariants(t) ==
    { SubSeq(t, 1, i) \o <<" ">> \o SubSeq(t, i + 1, Len(t)) :
        i \in { k \in 0..Len(t) :
                  \/ k = 0
                  \/ k = Len(t)
                  \/ t[k] = " "
                  \/ t[k + 1] = " " } }

C9_ResultLine ==
    Called =>
        LET results == { i \in 1..Len(output) : output[i].kind = "Result" }
        IN /\ Cardinality(results) = 1
           /\ \A i \in results :
                 /\ output[i].sentiment \in {"Positive sentiment", "Negative sentiment"}
                 /\ output[i].sentiment = "Positive sentiment" <=> probability > HalfScale
                 /\ \E j \in 1..(i - 1) :
                       output[j].kind = "Review" /\ output[j].review = text
                 /\ \E j \in 1..(i - 1) :
                       /\ output[j].kind = "Positive Sentiment Probability"
                       /\ output[j].probability = probability

C9_Witness ==
    /\ Called
    /\ probability = HalfScale
    /\ output[Len(output)] = [kind |-> "Result", sentiment |-> "Negative sentiment"]

----------------------------------------------------------------------------
(* Properties of model.fit *)

\* C10: training ends after exactly 5 epochs: with batch_size 32 and
\* validation_split 0.2 over the 25,000 rows every epoch takes 625 update
\* steps over the first 20,000 rows, each used exactly once in the epoch,
\* and the 5,000 held-back rows are never used for an update.
C10_Training ==
    /\ [] /\ epoch <= 5
          /\ step <= 625
          /\ updates = 625 * epoch + (IF pc = "fit_step" THEN step ELSE 0)
          /\ \A iv \in used : 0 <= iv[1] /\ iv[1] <= iv[2] /\ iv[2] <= 19999
          /\ Size(used) = used_n
          /\ (pc = "fit_step" /\ step = StepsPerEpoch(n_fit)) =>
                (step = 625 /\ used = {<<0, 19999>>})
          /\ val_seen \subseteq {<<20000, 24999>>}
          /\ epoch > 0 => (val_seen = {<<20000, 24999>>} /\ Size(val_seen) = 5000)
          /\ pc = "evaluate" => (epoch = 5 /\ updates = 3125)
    /\ <>(pc = "evaluate")

C10_Witness ==
    /\ pc = "evaluate"
    /\ n_fit = num_train
    /\ epoch = epochs
    /\ shuffle # 0
    /\ updates = epochs * StepsPerEpoch(num_train)

====
